---- MODULE Spec2Model ----
(***************************************************************************)
(* Model of the lspd opening-fee service (shared/opening_service.go) and   *)
(* of the postgres test container (itest/postgres.go).                     *)
(*                                                                         *)
(* Text (Go strings) is a sequence of one-character strings, binary data   *)
(* ([]byte) a sequence of integers 0..255.  Time is an integer number of   *)
(* clock ticks (the resolution of time.Now()).                             *)
(***************************************************************************)
EXTENDS Integers, Sequences, FiniteSets, TLC

(***************************************************************************)
(* Bounds of the model.                                                    *)
(***************************************************************************)
\* longest list of settings the store returns for one token
MaxSettings == 3
\* last clock tick of a behaviour
MaxClock == 4
\* submissions of one record that are counted
MaxSubmits == 2
\* Docker clients made, and containers created, in one run
MaxClients == 3
MaxContainers == 2

(***************************************************************************)
(* Text and byte helpers.                                                  *)
(***************************************************************************)
Digits == <<"0", "1", "2", "3", "4", "5", "6", "7", "8", "9">>

HexDigits == Digits \o <<"a", "b", "c", "d", "e", "f">>

IsDigit(c) == \E i \in 1..Len(Digits) : Digits[i] = c

DigitVal(c) == (CHOOSE i \in 1..Len(Digits) : Digits[i] = c) - 1

\* the byte of a character (ASCII), for the characters the model writes
Ord(c) ==
    CASE IsDigit(c) -> 48 + DigitVal(c)
      [] c = "\"" -> 34
      [] c = "," -> 44
      [] c = "Z" -> 90
      [] c = "[" -> 91
      [] c = "\\" -> 92
      [] c = "]" -> 93
      [] c = "x" -> 120
      [] OTHER -> 63

\* strconv-style decimal text of a natural number
RECURSIVE Itoa(_)
Itoa(n) == IF n < 10 THEN <<Digits[n + 1]>>
           ELSE Itoa(n \div 10) \o <<Digits[(n % 10) + 1]>>

\* the number a text of decimal digits denotes
RECURSIVE Atoi(_)
Atoi(s) == IF s = <<>> THEN 0
           ELSE 10 * Atoi(SubSeq(s, 1, Len(s) - 1)) + DigitVal(s[Len(s)])

RECURSIVE ZeroPad(_, _)
ZeroPad(s, width) == IF Len(s) >= width THEN s ELSE ZeroPad(<<"0">> \o s, width)

(***************************************************************************)
(* encoding/hex.                                                           *)
(***************************************************************************)
\* hex.EncodeToString: two lower-case hex digits per byte
HexEncodeToString(bytes) ==
    [i \in 1..(2 * Len(bytes)) |->
        IF i % 2 = 1 THEN HexDigits[(bytes[(i + 1) \div 2] \div 16) + 1]
        ELSE HexDigits[(bytes[i \div 2] % 16) + 1]]

\* value of one hex digit, either case; -1 when the character is no hex digit
HexVal(c) ==
    CASE IsDigit(c) -> DigitVal(c)
      [] c \in {"a", "A"} -> 10
      [] c \in {"b", "B"} -> 11
      [] c \in {"c", "C"} -> 12
      [] c \in {"d", "D"} -> 13
      [] c \in {"e", "E"} -> 14
      [] c \in {"f", "F"} -> 15
      [] OTHER -> -1

\* hex.DecodeString: an error for an odd length or a character that is no hex digit
HexDecodeString(s) ==
    IF Len(s) % 2 # 0 \/ \E i \in 1..Len(s) : HexVal(s[i]) < 0
    THEN [err |-> "hex", bytes |-> <<>>]
    ELSE [err |-> "nil",
          bytes |-> [i \in 1..(Len(s) \div 2) |->
                        16 * HexVal(s[2 * i - 1]) + HexVal(s[2 * i])]]

(***************************************************************************)
(* basetypes.TIME_FORMAT with time.Format and time.Parse.  The layout is   *)
(* an external constant: a fixed-width UTC layout whose smallest unit is   *)
(* TicksPerUnit clock ticks, written as StampDigits decimal digits and a   *)
(* closing "Z".  Format drops what is below the layout's unit.             *)
(***************************************************************************)
TicksPerUnit == 3

StampDigits == 2

FormatTime(t) == ZeroPad(Itoa(t \div TicksPerUnit), StampDigits) \o <<"Z">>

ParseTime(s) ==
    IF /\ Len(s) = StampDigits + 1
       /\ s[Len(s)] = "Z"
       /\ \A i \in 1..StampDigits : IsDigit(s[i])
    THEN [err |-> "nil", t |-> TicksPerUnit * Atoi(SubSeq(s, 1, StampDigits))]
    ELSE [err |-> "parse", t |-> 0]

(***************************************************************************)
(* encoding/json of the item list, crypto/sha256 and the compact ECDSA     *)
(* signature of btcec.                                                     *)
(***************************************************************************)
\* a JSON string literal: quotes around the text, quote and backslash escaped
RECURSIVE JsonEscape(_)
JsonEscape(s) ==
    IF s = <<>> THEN <<>>
    ELSE IF Len(s) = 1
    THEN (IF s[1] \in {"\"", "\\"} THEN <<"\\", s[1]>> ELSE <<s[1]>>)
    ELSE LET half == Len(s) \div 2
         IN  JsonEscape(SubSeq(s, 1, half)) \o JsonEscape(SubSeq(s, half + 1, Len(s)))

JsonString(s) == <<"\"">> \o JsonEscape(s) \o <<"\"">>

\* json.Marshal of []interface{}{uint64, uint32, string, uint32, uint32}
JsonMarshal(items) ==
    <<"[">> \o Itoa(items[1]) \o <<",">> \o Itoa(items[2]) \o <<",">>
    \o JsonString(items[3]) \o <<",">> \o Itoa(items[4]) \o <<",">>
    \o Itoa(items[5]) \o <<"]">>

\* size of a SHA-256 digest in bytes
DigestSize == 32

\* size of a compact signature: the recovery header, R and S
CompactSigSize == 1 + 2 * DigestSize

\* sha256.Sum256 as an ideal hash: an injective map from the blobs of the
\* model (none longer than DigestSize) to DigestSize bytes
Sha256(blob) ==
    [i \in 1..DigestSize |-> IF i <= Len(blob) THEN Ord(blob[i]) ELSE 0]

PrivateKeys == {1, 2}

\* public keys are curve points; point 0 stands for a point that is the
\* public key of no private key of the model
PubKey(k) == [nil |-> FALSE, point |-> k]

NilKey == [nil |-> TRUE, point |-> 0]

UnrelatedKey == [nil |-> FALSE, point |-> 0]

PublicKeys == {PubKey(k) : k \in PrivateKeys}

\* the R half of a signature by key k
KeyBytes(k) == [i \in 1..DigestSize |-> IF i = DigestSize THEN k ELSE 0]

\* ecdsa.SignCompact(key, hash, true): header 27+4 (compressed key), R, S.
\* Ideal signature: (R, S) binds the signing key and the digest.
SignCompact(k, hash) == <<31>> \o KeyBytes(k) \o hash

\* ecdsa.RecoverCompact(sig, hash): an error for a signature of the wrong
\* size or with a bad header; the signer's public key when the signature
\* was made over this digest; otherwise a point unrelated to every key.
RecoverCompact(sig, hash) ==
    IF Len(sig) # CompactSigSize
    THEN [err |-> "recover", pub |-> NilKey]
    ELSE IF sig[1] < 27 \/ sig[1] > 34
    THEN [err |-> "recover", pub |-> NilKey]
    ELSE IF /\ SubSeq(sig, 2 + DigestSize, CompactSigSize) = hash
            /\ \E k \in PrivateKeys : SubSeq(sig, 2, 1 + DigestSize) = KeyBytes(k)
    THEN [err |-> "nil",
          pub |-> PubKey(CHOOSE k \in PrivateKeys :
                            SubSeq(sig, 2, 1 + DigestSize) = KeyBytes(k))]
    ELSE [err |-> "nil", pub |-> UnrelatedKey]

(***************************************************************************)
(* shared/opening_service.go                                               *)
(***************************************************************************)
\* a *OpeningFeeParams argument: nil or a pointer to a record
Nil == [nil |-> TRUE]

Ptr(v) == [nil |-> FALSE, v |-> v]

\* paramsHash hashing the whole record, promise included
paramsHash_WithPromise(params) ==
    Sha256(JsonMarshal(<<params.MinFeeMsat, params.Proportional, params.ValidUntil,
                         params.MinLifetime, params.MaxClientToSelfDelay>>)
           \o JsonString(params.Promise))

\* paramsHash leaving the last field out of the item list
paramsHash_FourFields(params) ==
    Sha256(JsonMarshal(<<params.MinFeeMsat, params.Proportional, params.ValidUntil,
                         params.MinLifetime, 0>>))

\* paramsHash: the digest of the five signed fields in their fixed order.
\* json.Marshal has no error for these item types.
paramsHash(params) ==
    Sha256(JsonMarshal(<<params.MinFeeMsat, params.Proportional, params.ValidUntil,
                         params.MinLifetime, params.MaxClientToSelfDelay>>))

\* createPromise: signOk is the outcome of the signing backend
createPromise(lspPrivateKey, params, signOk) ==
    IF ~signOk THEN [err |-> "sign", promise |-> <<>>]
    ELSE [err |-> "nil",
          promise |-> HexEncodeToString(SignCompact(lspPrivateKey, paramsHash(params)))]

\* verifyPromise without the comparison of the recovered key
verifyPromise_NoKeyCheck(lspPublicKey, params) ==
    LET hash == paramsHash(params)
        dec  == HexDecodeString(params.Promise)
        rec  == RecoverCompact(dec.bytes, hash)
    IN  IF dec.err # "nil" THEN dec.err
        ELSE IF rec.err # "nil" THEN rec.err
        ELSE "nil"

\* verifyPromise letting a record without promise through
verifyPromise_SkipEmpty(lspPublicKey, params) ==
    LET hash == paramsHash(params)
        dec  == HexDecodeString(params.Promise)
        rec  == RecoverCompact(dec.bytes, hash)
    IN  IF params.Promise = <<>> THEN "nil"
        ELSE IF dec.err # "nil" THEN dec.err
        ELSE IF rec.err # "nil" THEN rec.err
        ELSE IF lspPublicKey.nil THEN "panic"
        ELSE IF lspPublicKey # rec.pub THEN "invalid promise"
        ELSE "nil"

\* verifyPromise: "nil" when the promise is a signature of the params by
\* lspPublicKey, otherwise the error; "panic" is the nil dereference of
\* IsEqual on an absent lspPublicKey
verifyPromise(lspPublicKey, params) ==
    LET hash == paramsHash(params)
        dec  == HexDecodeString(params.Promise)
        rec  == RecoverCompact(dec.bytes, hash)
    IN  IF dec.err # "nil" THEN dec.err
        ELSE IF rec.err # "nil" THEN rec.err
        ELSE IF lspPublicKey.nil THEN "panic"
        ELSE IF lspPublicKey # rec.pub THEN "invalid promise"
        ELSE "nil"

\* ValidateOpeningFeeParams rejecting from the instant of valid_until on
ValidateOpeningFeeParams_RejectAtExpiry(params, publicKey, clock) ==
    IF params.nil
    THEN [panicked |-> FALSE, ret |-> FALSE, verified |-> FALSE, clockRead |-> FALSE]
    ELSE LET err == verifyPromise(publicKey, params.v)
             t   == ParseTime(params.v.ValidUntil)
         IN  IF err = "panic"
             THEN [panicked |-> TRUE, ret |-> FALSE, verified |-> TRUE, clockRead |-> FALSE]
             ELSE IF err # "nil"
             THEN [panicked |-> FALSE, ret |-> FALSE, verified |-> TRUE, clockRead |-> FALSE]
             ELSE IF t.err # "nil"
             THEN [panicked |-> FALSE, ret |-> FALSE, verified |-> TRUE, clockRead |-> FALSE]
             ELSE IF clock >= t.t
             THEN [panicked |-> FALSE, ret |-> FALSE, verified |-> TRUE, clockRead |-> TRUE]
             ELSE [panicked |-> FALSE, ret |-> TRUE, verified |-> TRUE, clockRead |-> TRUE]

\* ValidateOpeningFeeParams without the comparison of the clock with valid_until
ValidateOpeningFeeParams_NoExpiry(params, publicKey, clock) ==
    IF params.nil
    THEN [panicked |-> FALSE, ret |-> FALSE, verified |-> FALSE, clockRead |-> FALSE]
    ELSE LET err == verifyPromise(publicKey, params.v)
             t   == ParseTime(params.v.ValidUntil)
         IN  IF err = "panic"
             THEN [panicked |-> TRUE, ret |-> FALSE, verified |-> TRUE, clockRead |-> FALSE]
             ELSE IF err # "nil"
             THEN [panicked |-> FALSE, ret |-> FALSE, verified |-> TRUE, clockRead |-> FALSE]
             ELSE IF t.err # "nil"
             THEN [panicked |-> FALSE, ret |-> FALSE, verified |-> TRUE, clockRead |-> FALSE]
             ELSE [panicked |-> FALSE, ret |-> TRUE, verified |-> TRUE, clockRead |-> FALSE]

\* ValidateOpeningFeeParams without the nil test: a nil params is dereferenced
\* by paramsHash
ValidateOpeningFeeParams_RecoverErrIgnored(params, publicKey, clock) ==
    IF params.nil
    THEN [panicked |-> FALSE, ret |-> FALSE, verified |-> FALSE, clockRead |-> FALSE]
    ELSE LET err == verifyPromise(publicKey, params.v)
             t   == ParseTime(params.v.ValidUntil)
         IN  IF err = "panic"
             THEN [panicked |-> TRUE, ret |-> FALSE, verified |-> TRUE, clockRead |-> FALSE]
             ELSE IF err \notin {"nil", "recover"}
             THEN [panicked |-> FALSE, ret |-> FALSE, verified |-> TRUE, clockRead |-> FALSE]
             ELSE IF t.err # "nil"
             THEN [panicked |-> FALSE, ret |-> FALSE, verified |-> TRUE, clockRead |-> FALSE]
             ELSE IF clock > t.t
             THEN [panicked |-> FALSE, ret |-> FALSE, verified |-> TRUE, clockRead |-> TRUE]
             ELSE [panicked |-> FALSE, ret |-> TRUE, verified |-> TRUE, clockRead |-> TRUE]

ValidateOpeningFeeParams_NoNilCheck(params, publicKey, clock) ==
    IF params.nil
    THEN [panicked |-> TRUE, ret |-> FALSE, verified |-> TRUE, clockRead |-> FALSE]
    ELSE LET err == verifyPromise(publicKey, params.v)
             t   == ParseTime(params.v.ValidUntil)
         IN  IF err = "panic"
             THEN [panicked |-> TRUE, ret |-> FALSE, verified |-> TRUE, clockRead |-> FALSE]
             ELSE IF err # "nil"
             THEN [panicked |-> FALSE, ret |-> FALSE, verified |-> TRUE, clockRead |-> FALSE]
             ELSE IF t.err # "nil"
             THEN [panicked |-> FALSE, ret |-> FALSE, verified |-> TRUE, clockRead |-> FALSE]
             ELSE IF clock > t.t
             THEN [panicked |-> FALSE, ret |-> FALSE, verified |-> TRUE, clockRead |-> TRUE]
             ELSE [panicked |-> FALSE, ret |-> TRUE, verified |-> TRUE, clockRead |-> TRUE]

\* ValidateOpeningFeeParams(params, publicKey), with clock the value that
\* time.Now() yields when it is read.  verified and clockRead tell whether
\* the call got as far as verifyPromise and as the clock read.
ValidateOpeningFeeParams(params, publicKey, clock) ==
    IF params.nil
    THEN [panicked |-> FALSE, ret |-> FALSE, verified |-> FALSE, clockRead |-> FALSE]
    ELSE LET err == verifyPromise(publicKey, params.v)
             t   == ParseTime(params.v.ValidUntil)
         IN  IF err = "panic"
             THEN [panicked |-> TRUE, ret |-> FALSE, verified |-> TRUE, clockRead |-> FALSE]
             ELSE IF err # "nil"
             THEN [panicked |-> FALSE, ret |-> FALSE, verified |-> TRUE, clockRead |-> FALSE]
             ELSE IF t.err # "nil"
             THEN [panicked |-> FALSE, ret |-> FALSE, verified |-> TRUE, clockRead |-> FALSE]
             ELSE IF clock > t.t
             THEN [panicked |-> FALSE, ret |-> FALSE, verified |-> TRUE, clockRead |-> TRUE]
             ELSE [panicked |-> FALSE, ret |-> TRUE, verified |-> TRUE, clockRead |-> TRUE]

\* the record with the two durations of the setting exchanged
NewParams_SwapLifetime(setting, clock) ==
    [MinFeeMsat           |-> setting.Params.MinMsat,
     Proportional         |-> setting.Params.Proportional,
     ValidUntil           |-> FormatTime(clock + setting.Validity),
     MinLifetime          |-> setting.Params.MaxClientToSelfDelay,
     MaxClientToSelfDelay |-> setting.Params.MaxIdleTime,
     Promise              |-> <<>>]

\* the record GetFeeParamsMenu builds from one setting, before signing
NewParams(setting, clock) ==
    [MinFeeMsat           |-> setting.Params.MinMsat,
     Proportional         |-> setting.Params.Proportional,
     ValidUntil           |-> FormatTime(clock + setting.Validity),
     MinLifetime          |-> setting.Params.MaxIdleTime,
     MaxClientToSelfDelay |-> setting.Params.MaxClientToSelfDelay,
     Promise              |-> <<>>]

\* one pass of the loop: the record of a setting with its promise
SignedParams(setting, clock, privateKey) ==
    LET params == NewParams(setting, clock)
    IN  [params EXCEPT !.Promise = createPromise(privateKey, params, TRUE).promise]

\* the comparison without the tie-break on Proportional
MenuLess_NoTieBreak(a, b) == a.MinFeeMsat < b.MinFeeMsat

\* the comparison given to sort.Slice
MenuLess(a, b) ==
    IF a.MinFeeMsat = b.MinFeeMsat
    THEN a.Proportional < b.Proportional
    ELSE a.MinFeeMsat < b.MinFeeMsat

\* sort.Slice(menu, less) is not stable: every ordering of the records that
\* the comparison admits is a possible outcome
SortSlice(menu) ==
    LET n == Len(menu)
        perms == {p \in [1..n -> 1..n] : \A i, j \in 1..n : i # j => p[i] # p[j]}
    IN  {[i \in 1..n |-> menu[p[i]]] :
            p \in {q \in perms : \A i \in 1..(n - 1) : ~MenuLess(menu[q[i + 1]], menu[q[i]])}}

\* GetFeeParamsMenu handing the store's error to the caller
GetFeeParamsMenu_ExposeCause(stored, privateKey, reads, failAt) ==
    IF stored.err # "nil"
    THEN {[menu |-> <<>>, err |-> stored.err]}
    ELSE IF failAt \in 1..Len(stored.settings)
    THEN {[menu |-> <<>>, err |-> "sign"]}
    ELSE {[menu |-> m, err |-> "nil"] :
            m \in SortSlice([i \in 1..Len(stored.settings) |->
                                SignedParams(stored.settings[i], reads[i], privateKey)])}

\* GetFeeParamsMenu returning the records signed before the failure
GetFeeParamsMenu_Partial(stored, privateKey, reads, failAt) ==
    IF stored.err # "nil"
    THEN {[menu |-> <<>>, err |-> "failed to get opening_fee_params"]}
    ELSE IF failAt \in 1..Len(stored.settings)
    THEN {[menu |-> [i \in 1..(failAt - 1) |->
                        SignedParams(stored.settings[i], reads[i], privateKey)],
           err |-> "sign"]}
    ELSE {[menu |-> m, err |-> "nil"] :
            m \in SortSlice([i \in 1..Len(stored.settings) |->
                                SignedParams(stored.settings[i], reads[i], privateKey)])}

\* GetFeeParamsMenu treating an empty result of the store as an error
GetFeeParamsMenu_EmptyIsError(stored, privateKey, reads, failAt) ==
    IF stored.err # "nil"
    THEN {[menu |-> <<>>, err |-> "failed to get opening_fee_params"]}
    ELSE IF stored.settings = <<>>
    THEN {[menu |-> <<>>, err |-> "no settings"]}
    ELSE IF failAt \in 1..Len(stored.settings)
    THEN {[menu |-> <<>>, err |-> "sign"]}
    ELSE {[menu |-> m, err |-> "nil"] :
            m \in SortSlice([i \in 1..Len(stored.settings) |->
                                SignedParams(stored.settings[i], reads[i], privateKey)])}

\* GetFeeParamsMenu reading the clock once, before the loop
GetFeeParamsMenu_OneClockRead(stored, privateKey, reads, failAt) ==
    IF stored.err # "nil"
    THEN {[menu |-> <<>>, err |-> "failed to get opening_fee_params"]}
    ELSE IF failAt \in 1..Len(stored.settings)
    THEN {[menu |-> <<>>, err |-> "sign"]}
    ELSE {[menu |-> m, err |-> "nil"] :
            m \in SortSlice([i \in 1..Len(stored.settings) |->
                                SignedParams(stored.settings[i], reads[1], privateKey)])}

\* GetFeeParamsMenu: the set of results (menu, err) the call can return.
\* stored is what store.GetFeeParamsSettings returns, reads[i] the clock
\* read for setting i, failAt the setting whose signing fails (0: none).
GetFeeParamsMenu(stored, privateKey, reads, failAt) ==
    IF stored.err # "nil"
    THEN {[menu |-> <<>>, err |-> "failed to get opening_fee_params"]}
    ELSE IF failAt \in 1..Len(stored.settings)
    THEN {[menu |-> <<>>,
           err |-> createPromise(privateKey,
                                 NewParams(stored.settings[failAt], reads[failAt]),
                                 FALSE).err]}
    ELSE {[menu |-> m, err |-> "nil"] :
            m \in SortSlice([i \in 1..Len(stored.settings) |->
                                SignedParams(stored.settings[i], reads[i], privateKey)])}

(***************************************************************************)
(* The environment of the service: the settings the store can return, the  *)
(* store's failures, and what a client can do to a record it holds.        *)
(***************************************************************************)
\* a FeeParamsSettings value of the store
Setting(minMsat, proportional, validity) ==
    [Params   |-> [MinMsat |-> minMsat, Proportional |-> proportional,
                   MaxIdleTime |-> 10, MaxClientToSelfDelay |-> 20],
     Validity |-> validity]

\* the settings of the model: two fees, two proportional factors; a validity
\* of a whole unit of the time layout, or of a single tick
Settings ==
    {Setting(100, 1, TicksPerUnit), Setting(100, 2, TicksPerUnit),
     Setting(500, 1, TicksPerUnit), Setting(100, 1, 1)}

SettingLists == UNION {[1..n -> Settings] : n \in 0..MaxSettings}

StoreErrors == {"connection refused", "timeout"}

\* what store.GetFeeParamsSettings(token) can return
StoreResults ==
    {[err |-> "nil", settings |-> l] : l \in SettingLists}
    \cup {[err |-> e, settings |-> <<>>] : e \in StoreErrors}

Tokens == {"token"}

SignedFields ==
    {"MinFeeMsat", "Proportional", "ValidUntil", "MinLifetime", "MaxClientToSelfDelay"}

\* the first character of a text replaced by one that is no hex digit
Garbled(s) == IF s = <<>> THEN <<"x">> ELSE <<"x">> \o Tail(s)

\* a text with its hex letters in upper case
UpperCase(s) ==
    [i \in 1..Len(s) |->
        CASE s[i] = "a" -> "A" [] s[i] = "b" -> "B" [] s[i] = "c" -> "C"
          [] s[i] = "d" -> "D" [] s[i] = "e" -> "E" [] s[i] = "f" -> "F"
          [] OTHER -> s[i]]

\* the values a client can put into field f of the record rec
TamperValues(f, rec) ==
    CASE f = "MinFeeMsat" -> {0, 100, 500}
      [] f = "Proportional" -> {0, 1, 2}
      [] f = "MinLifetime" -> {10, 11}
      [] f = "MaxClientToSelfDelay" -> {20, 21}
      [] f = "ValidUntil" ->
            {FormatTime(t) : t \in {0, MaxClock + 2 * TicksPerUnit}}
            \cup {<<>>, <<"0", "x", "Z">>, <<"0", "1">>, <<"\"", "1", "Z">>}
      [] f = "Promise" ->
            {<<>>, Garbled(rec.Promise), UpperCase(rec.Promise),
             SubSeq(rec.Promise, 1, Len(rec.Promise) - 1),
             SubSeq(rec.Promise, 1, Len(rec.Promise) - 2)}

(***************************************************************************)
(* State.                                                                  *)
(***************************************************************************)
VARIABLES
    now,        \* the UTC clock, in ticks
    pc,         \* the client: "idle", "menu" (a menu call returned), "held"
    menuCall,   \* the last GetFeeParamsMenu call: arguments, collaborators' answers, result
    held,       \* the record the client holds, and how it came about
    valCall     \* the last ValidateOpeningFeeParams call: arguments, clock, result

\* The service under concurrent calls: what the calls share, and each call's
\* position and locals.
VARIABLES
    store,          \* the settings the store holds for the token
    lspPrivateKey,  \* the key the menu calls are given
    submitted,      \* the record the params pointer of the validation calls points to
    calls           \* per goroutine: the call it runs, its position and its locals

concVars == <<store, lspPrivateKey, submitted, calls>>

\* The PostgresContainer of the integration tests, the Docker daemon it
\* talks to, and the goroutines that use it.
VARIABLES
    id,             \* c.id: the container's id, 0 before initialize
    cli,            \* c.cli: the Docker client handle, 0 for nil
    isInitialized,  \* c.isInitialized
    isStarted,      \* c.isStarted
    mtx,            \* c.mtx: the caller that holds it, 0 when free
    created,        \* Docker: the number of containers created
    running,        \* Docker: the ids of the running containers
    nclients,       \* the number of Docker clients made so far
    open,           \* the client handles that are not closed
    cpc,            \* per caller: its position in Start or Stop
    pending,        \* monitorLogs goroutines spawned that have not read c.cli yet
    streaming,      \* the client handles monitorLogs goroutines took from c.cli
    lastRet         \* the call that returned last, and what it returned

dockerVars == <<created, running, nclients, open>>

pgVars == <<id, cli, isInitialized, isStarted, mtx, dockerVars, cpc, pending, streaming, lastRet>>

vars == <<now, pc, menuCall, held, valCall, concVars, pgVars>>

NoParams ==
    [MinFeeMsat |-> 0, Proportional |-> 0, ValidUntil |-> <<>>, MinLifetime |-> 0,
     MaxClientToSelfDelay |-> 0, Promise |-> <<>>]

NoMenuCall ==
    [token |-> "", privateKey |-> 0, stored |-> [err |-> "nil", settings |-> <<>>],
     reads |-> <<>>, failAt |-> 0, menu |-> <<>>, err |-> "nil"]

NoHeld ==
    [rec |-> NoParams, issued |-> NoParams, signer |-> 0,
     issuedAt |-> 0, validity |-> 0, tampered |-> "none",
     submits |-> 0, expired |-> FALSE]

Goroutines == {1, 2}

\* the goroutines that call Start and Stop
Callers == {1, 2}

NoReturn == [op |-> "none", err |-> FALSE, noop |-> FALSE]

\* NewPostgresContainer: no client, no container, nothing started
InitContainer ==
    /\ id = 0
    /\ cli = 0
    /\ isInitialized = FALSE
    /\ isStarted = FALSE
    /\ mtx = 0
    /\ created = 0
    /\ running = {}
    /\ nclients = 0
    /\ open = {}
    /\ cpc = [t \in Callers |-> "idle"]
    /\ pending = 0
    /\ streaming = {}
    /\ lastRet = NoReturn

\* a goroutine that runs no call yet
NoCall ==
    [op |-> "none", pc |-> "idle", settings |-> <<>>, storeErr |-> "nil",
     menu |-> <<>>, reads |-> <<>>, failAt |-> 0, storeReads |-> 0, signAttempts |-> 0,
     arg |-> NoParams, publicKey |-> NilKey, clock |-> 0,
     ret |-> [menu |-> <<>>, err |-> "nil", ok |-> FALSE]]

NoValCall ==
    [called |-> FALSE, params |-> Nil, publicKey |-> NilKey, clock |-> 0,
     verr |-> "none",
     out |-> [panicked |-> FALSE, ret |-> FALSE, verified |-> FALSE, clockRead |-> FALSE]]

Init ==
    /\ now = 0
    /\ pc = "idle"
    /\ menuCall = NoMenuCall
    /\ held = NoHeld
    /\ valCall = NoValCall
    /\ store = <<>>
    /\ lspPrivateKey = 1
    /\ submitted = NoParams
    /\ calls = [g \in Goroutines |-> NoCall]
    /\ InitContainer

(***************************************************************************)
(* Actions.                                                                *)
(***************************************************************************)
\* time passes, between calls: the menu of a call is with the client and the
\* result of a validation with its caller before the clock moves on
Tick ==
    /\ pc # "menu"
    /\ now < MaxClock
    /\ now' = now + 1
    /\ valCall' = NoValCall
    /\ UNCHANGED <<pc, menuCall, held>>
    /\ UNCHANGED <<concVars, pgVars>>

\* a call of GetFeeParamsMenu(token, privateKey).  The clock may advance by
\* a tick during the call, before the read for setting tickAt.
GetFeeParamsMenuCall ==
    /\ pc = "idle"
    /\ \E token \in Tokens, privateKey \in PrivateKeys, stored \in StoreResults :
       \E failAt \in 0..Len(stored.settings), tickAt \in 0..Len(stored.settings) :
          LET last  == IF failAt = 0 THEN Len(stored.settings) ELSE failAt
              reads == [i \in 1..last |-> IF tickAt # 0 /\ tickAt <= i THEN now + 1 ELSE now]
              after == IF tickAt # 0 /\ tickAt <= last THEN now + 1 ELSE now
          IN  /\ after <= MaxClock
              /\ tickAt <= last
              /\ failAt # 0 => tickAt = 0
              /\ \E res \in GetFeeParamsMenu(stored, privateKey, reads, failAt) :
                    menuCall' = [token |-> token, privateKey |-> privateKey,
                                 stored |-> stored, reads |-> reads, failAt |-> failAt,
                                 menu |-> res.menu, err |-> res.err]
              /\ now' = after
    /\ pc' = "menu"
    /\ valCall' = NoValCall
    /\ UNCHANGED held
    /\ UNCHANGED <<concVars, pgVars>>

\* the client keeps one record of the menu it was given; setting i is one
\* the record was built from
Pick ==
    /\ pc = "menu"
    /\ menuCall.err = "nil"
    /\ \E j \in 1..Len(menuCall.menu), i \in 1..Len(menuCall.stored.settings) :
          LET rec == menuCall.menu[j]
          IN  /\ [rec EXCEPT !.Promise = <<>>]
                    = NewParams(menuCall.stored.settings[i], menuCall.reads[i])
              /\ held' = [rec |-> rec, issued |-> rec, signer |-> menuCall.privateKey,
                          issuedAt |-> menuCall.reads[i],
                          validity |-> menuCall.stored.settings[i].Validity,
                          tampered |-> "none", submits |-> 0, expired |-> FALSE]
    /\ pc' = "held"
    /\ menuCall' = NoMenuCall
    /\ UNCHANGED <<now, valCall>>
    /\ UNCHANGED <<concVars, pgVars>>

\* the client changes one field of the record it holds
Tamper ==
    /\ pc = "held"
    /\ held.tampered = "none"
    /\ \E f \in SignedFields \cup {"Promise"} :
       \E v \in TamperValues(f, held.rec) :
          /\ v # held.rec[f]
          /\ held' = [held EXCEPT !.rec[f] = v, !.tampered = f,
                                   !.submits = 0, !.expired = FALSE]
    /\ valCall' = NoValCall
    /\ UNCHANGED <<now, pc, menuCall>>
    /\ UNCHANGED <<concVars, pgVars>>

\* a call of ValidateOpeningFeeParams(params, publicKey): the client submits
\* the record it holds, or nothing when it holds none.  verr is what
\* verifyPromise returns to the call; held counts the submissions of the
\* record as it was issued and remembers a rejection at the expiry test.
ValidateOpeningFeeParamsCall ==
    /\ pc \in {"idle", "held"}
    /\ \E params \in (IF pc = "held" THEN {Ptr(held.rec)} ELSE {Nil}),
          publicKey \in PublicKeys \cup {NilKey} :
          LET out == ValidateOpeningFeeParams(params, publicKey, now)
          IN  /\ valCall' = [called |-> TRUE, params |-> params, publicKey |-> publicKey,
                             clock |-> now,
                             verr |-> IF params.nil THEN "none"
                                      ELSE verifyPromise(publicKey, params.v),
                             out |-> out]
              /\ held' = IF pc = "held" /\ held.tampered = "none"
                         THEN [held EXCEPT
                                 !.submits = IF @ < MaxSubmits THEN @ + 1 ELSE @,
                                 !.expired = @ \/ (out.clockRead /\ ~out.ret)]
                         ELSE held
    /\ UNCHANGED <<now, pc, menuCall>>
    /\ UNCHANGED <<concVars, pgVars>>

Next ==
    \/ Tick
    \/ GetFeeParamsMenuCall
    \/ Pick
    \/ Tamper
    \/ ValidateOpeningFeeParamsCall

Spec == Init /\ [][Next]_vars

(***************************************************************************)
(* The two operations step by step, for calls that run concurrently: each  *)
(* goroutine runs one call, a step is one access to what the calls share   *)
(* (the store, the key, the clock, the submitted record).                  *)
(***************************************************************************)
clientVars == <<pc, menuCall, held, valCall>>

\* the store's contents: empty, or two settings out of fee order whose
\* validities differ
ConcStores == {<<>>, <<Setting(500, 1, TicksPerUnit), Setting(100, 1, 1)>>}

\* the record the validation calls are handed: one issued at clock 0 by the
\* key k, as issued or with its promise cut to 64 bytes
ConcRecords(k) ==
    LET rec == SignedParams(Setting(100, 1, TicksPerUnit), 0, k)
    IN  {rec, [rec EXCEPT !.Promise = SubSeq(@, 1, Len(@) - 2)]}

InitConc ==
    /\ now = 0
    /\ pc = "idle"
    /\ menuCall = NoMenuCall
    /\ held = NoHeld
    /\ valCall = NoValCall
    /\ store \in ConcStores
    /\ lspPrivateKey = 1
    /\ submitted \in ConcRecords(lspPrivateKey)
    /\ calls = [g \in Goroutines |-> NoCall]
    /\ InitContainer

\* GetFeeParamsMenu, entry to the end of the store read
MenuFetch(g) ==
    /\ calls[g].pc = "idle"
    /\ \E stored \in {[err |-> "nil", settings |-> store]}
                        \cup {[err |-> e, settings |-> <<>>] : e \in StoreErrors} :
          calls' = [calls EXCEPT ![g] =
                      [@ EXCEPT !.op = "menu",
                                !.storeReads = @ + 1,
                                !.storeErr = stored.err,
                                !.settings = stored.settings,
                                !.pc = IF stored.err # "nil" THEN "done"
                                       ELSE IF stored.settings = <<>> THEN "sort"
                                       ELSE "loop",
                                !.ret = IF stored.err # "nil"
                                        THEN [menu |-> <<>>,
                                              err |-> "failed to get opening_fee_params",
                                              ok |-> FALSE]
                                        ELSE @]]
    /\ UNCHANGED <<now, clientVars, pgVars, store, lspPrivateKey, submitted>>

\* one iteration of the loop, signing a second time after a failed attempt
MenuSign_Retry(g) ==
    /\ calls[g].pc = "loop"
    /\ \E signOk \in BOOLEAN, again \in BOOLEAN :
          LET c == calls[g]
              i == Len(c.reads) + 1
              params == NewParams(c.settings[i], now)
              p == createPromise(lspPrivateKey, params, signOk \/ again)
          IN  calls' = [calls EXCEPT ![g] =
                  IF p.err # "nil"
                  THEN [c EXCEPT !.reads = Append(@, now),
                                 !.signAttempts = @ + 2,
                                 !.failAt = i,
                                 !.menu = <<>>,
                                 !.pc = "done",
                                 !.ret = [menu |-> <<>>, err |-> p.err, ok |-> FALSE]]
                  ELSE [c EXCEPT !.reads = Append(@, now),
                                 !.signAttempts = @ + (IF signOk THEN 1 ELSE 2),
                                 !.menu = Append(@, [params EXCEPT !.Promise = p.promise]),
                                 !.pc = IF i = Len(c.settings) THEN "sort" ELSE "loop"]]
    /\ UNCHANGED <<now, clientVars, pgVars, store, lspPrivateKey, submitted>>

\* GetFeeParamsMenu, one iteration of the loop: the clock read, the record,
\* its promise, and the return when signing fails
MenuSign(g) ==
    /\ calls[g].pc = "loop"
    /\ \E signOk \in BOOLEAN :
          LET c == calls[g]
              i == Len(c.reads) + 1
              params == NewParams(c.settings[i], now)
              p == createPromise(lspPrivateKey, params, signOk)
          IN  calls' = [calls EXCEPT ![g] =
                  IF p.err # "nil"
                  THEN [c EXCEPT !.reads = Append(@, now),
                                 !.signAttempts = @ + 1,
                                 !.failAt = i,
                                 !.menu = <<>>,
                                 !.pc = "done",
                                 !.ret = [menu |-> <<>>, err |-> p.err, ok |-> FALSE]]
                  ELSE [c EXCEPT !.reads = Append(@, now),
                                 !.signAttempts = @ + 1,
                                 !.menu = Append(@, [params EXCEPT !.Promise = p.promise]),
                                 !.pc = IF i = Len(c.settings) THEN "sort" ELSE "loop"]]
    /\ UNCHANGED <<now, clientVars, pgVars, store, lspPrivateKey, submitted>>

\* GetFeeParamsMenu, the sort and the return of the menu
MenuSort(g) ==
    /\ calls[g].pc = "sort"
    /\ \E m \in SortSlice(calls[g].menu) :
          calls' = [calls EXCEPT ![g] =
                      [@ EXCEPT !.menu = <<>>,
                                !.pc = "done",
                                !.ret = [menu |-> m, err |-> "nil", ok |-> FALSE]]]
    /\ UNCHANGED <<now, clientVars, pgVars, store, lspPrivateKey, submitted>>

\* ValidateOpeningFeeParams, entry and the nil test: the call is handed a
\* pointer to the submitted record and a public key
ValEnter(g) ==
    /\ calls[g].pc = "idle"
    /\ \E publicKey \in PublicKeys :
          calls' = [calls EXCEPT ![g] =
                      [@ EXCEPT !.op = "validate",
                                !.pc = "verify",
                                !.arg = submitted,
                                !.publicKey = publicKey]]
    /\ UNCHANGED <<now, clientVars, pgVars, store, lspPrivateKey, submitted>>

\* the verification step taking the promise out of the record it verified
ValVerify_ConsumesPromise(g) ==
    /\ calls[g].pc = "verify"
    /\ LET err == verifyPromise(calls[g].publicKey, submitted)
       IN  /\ calls' = [calls EXCEPT ![g] =
                          IF err # "nil"
                          THEN [@ EXCEPT !.pc = "done",
                                         !.ret = [menu |-> <<>>, err |-> "nil", ok |-> FALSE]]
                          ELSE [@ EXCEPT !.pc = "expiry"]]
           /\ submitted' = IF err = "nil" THEN [submitted EXCEPT !.Promise = <<>>]
                           ELSE submitted
    /\ UNCHANGED <<now, clientVars, pgVars, store, lspPrivateKey>>

\* ValidateOpeningFeeParams, the call of verifyPromise on the record
ValVerify(g) ==
    /\ calls[g].pc = "verify"
    /\ LET err == verifyPromise(calls[g].publicKey, submitted)
       IN  /\ calls' = [calls EXCEPT ![g] =
                          IF err # "nil"
                          THEN [@ EXCEPT !.pc = "done",
                                         !.ret = [menu |-> <<>>, err |-> "nil", ok |-> FALSE]]
                          ELSE [@ EXCEPT !.pc = "expiry"]]
           /\ submitted' = submitted
    /\ UNCHANGED <<now, clientVars, pgVars, store, lspPrivateKey>>

\* ValidateOpeningFeeParams, the parse of valid_until, the clock read and
\* the expiry test
ValExpiry(g) ==
    /\ calls[g].pc = "expiry"
    /\ LET t == ParseTime(submitted.ValidUntil)
       IN  calls' = [calls EXCEPT ![g] =
                       IF t.err # "nil"
                       THEN [@ EXCEPT !.pc = "done",
                                      !.ret = [menu |-> <<>>, err |-> "nil", ok |-> FALSE]]
                       ELSE [@ EXCEPT !.pc = "done",
                                      !.clock = now,
                                      !.ret = [menu |-> <<>>, err |-> "nil",
                                               ok |-> ~(now > t.t)]]]
    /\ UNCHANGED <<now, clientVars, pgVars, store, lspPrivateKey, submitted>>

NextConc ==
    \/ Tick
    \/ \E g \in Goroutines : MenuFetch(g)
    \/ \E g \in Goroutines : MenuSign(g)
    \/ \E g \in Goroutines : MenuSort(g)
    \/ \E g \in Goroutines : ValEnter(g)
    \/ \E g \in Goroutines : ValVerify(g)
    \/ \E g \in Goroutines : ValExpiry(g)

SpecConc == InitConc /\ [][NextConc]_vars

(***************************************************************************)
(* PostgresContainer: Start and Stop called by concurrent callers, and the *)
(* monitorLogs goroutines that Start spawns.  A step of a caller is one    *)
(* Docker call with the assignments around it; mtx is held from the entry  *)
(* of a call to its return.                                                *)
(***************************************************************************)
svcVars == <<now, clientVars, concVars>>

InitPg ==
    /\ now = 0
    /\ pc = "idle"
    /\ menuCall = NoMenuCall
    /\ held = NoHeld
    /\ valCall = NoValCall
    /\ store = <<>>
    /\ lspPrivateKey = 1
    /\ submitted = NoParams
    /\ calls = [g \in Goroutines |-> NoCall]
    /\ InitContainer

\* the deferred Unlock and the return of caller t from op
Return(t, op, err) ==
    /\ mtx' = 0
    /\ cpc' = [cpc EXCEPT ![t] = "idle"]
    /\ lastRet' = [op |-> op, err |-> err, noop |-> FALSE]

\* Start: Lock, and the test of isStarted
StartEnter(t) ==
    /\ cpc[t] = "idle"
    /\ mtx = 0
    /\ IF isStarted
       THEN /\ lastRet' = [op |-> "Start", err |-> FALSE, noop |-> TRUE]
            /\ UNCHANGED <<mtx, cpc>>
       ELSE /\ nclients < MaxClients
            /\ mtx' = t
            /\ cpc' = [cpc EXCEPT ![t] = "newclient"]
            /\ UNCHANGED lastRet
    /\ UNCHANGED <<svcVars, id, cli, isInitialized, isStarted, dockerVars, pending, streaming>>

\* Start: c.cli, err = client.NewClientWithOpts(...)
StartNewClient(t) ==
    /\ cpc[t] = "newclient"
    /\ \E ok \in BOOLEAN :
          IF ok
          THEN /\ nclients' = nclients + 1
               /\ cli' = nclients + 1
               /\ open' = open \cup {nclients + 1}
               /\ cpc' = [cpc EXCEPT ![t] = IF isInitialized THEN "containerstart"
                                            ELSE "initialize"]
               /\ UNCHANGED <<mtx, lastRet>>
          ELSE /\ cli' = 0
               /\ Return(t, "Start", TRUE)
               /\ UNCHANGED <<nclients, open>>
    /\ UNCHANGED <<svcVars, id, isInitialized, isStarted, created, running, pending, streaming>>

\* initialize that does not record that the container exists
StartInitialize_NoFlag(t) ==
    /\ cpc[t] = "initialize"
    /\ created < MaxContainers
    /\ \E ok \in BOOLEAN :
          IF ok
          THEN /\ created' = created + 1
               /\ id' = created + 1
               /\ cpc' = [cpc EXCEPT ![t] = "containerstart"]
               /\ UNCHANGED <<isInitialized, open, mtx, lastRet>>
          ELSE /\ open' = open \ {cli}
               /\ Return(t, "Start", TRUE)
               /\ UNCHANGED <<created, id, isInitialized>>
    /\ UNCHANGED <<svcVars, cli, isStarted, running, nclients, pending, streaming>>

\* Start: initialize (image lookup, ContainerCreate), run while
\* isInitialized is false
StartInitialize(t) ==
    /\ cpc[t] = "initialize"
    /\ created < MaxContainers
    /\ \E ok \in BOOLEAN :
          IF ok
          THEN /\ created' = created + 1
               /\ id' = created + 1
               /\ isInitialized' = TRUE
               /\ cpc' = [cpc EXCEPT ![t] = "containerstart"]
               /\ UNCHANGED <<open, mtx, lastRet>>
          ELSE /\ open' = open \ {cli}
               /\ Return(t, "Start", TRUE)
               /\ UNCHANGED <<created, id, isInitialized>>
    /\ UNCHANGED <<svcVars, cli, isStarted, running, nclients, pending, streaming>>

\* Start: ContainerStart, and isStarted = true when it succeeds
StartContainer(t) ==
    /\ cpc[t] = "containerstart"
    /\ \E ok \in BOOLEAN :
          IF ok
          THEN /\ running' = running \cup {id}
               /\ isStarted' = TRUE
               /\ cpc' = [cpc EXCEPT ![t] = "healthcheck"]
               /\ UNCHANGED <<open, mtx, lastRet>>
          ELSE /\ open' = open \ {cli}
               /\ Return(t, "Start", TRUE)
               /\ UNCHANGED <<running, isStarted>>
    /\ UNCHANGED <<svcVars, id, cli, isInitialized, created, nclients, pending, streaming>>

\* Start: the health check loop up to its outcome, then either the stop of
\* the container and the error return, or go monitorLogs and return nil
StartHealthCheck(t) ==
    /\ cpc[t] = "healthcheck"
    /\ \E status \in {"inspect error", "unhealthy", "healthy"} :
          IF status = "healthy"
          THEN /\ pending' = pending + 1
               /\ Return(t, "Start", FALSE)
               /\ UNCHANGED <<running, open>>
          ELSE /\ running' = running \ {id}
               /\ open' = open \ {cli}
               /\ Return(t, "Start", TRUE)
               /\ UNCHANGED pending
    /\ UNCHANGED <<svcVars, id, cli, isInitialized, isStarted, created, nclients, streaming>>

\* Stop: Lock, and the test of isStarted
StopEnter(t) ==
    /\ cpc[t] = "idle"
    /\ mtx = 0
    /\ IF ~isStarted
       THEN /\ lastRet' = [op |-> "Stop", err |-> FALSE, noop |-> TRUE]
            /\ UNCHANGED <<mtx, cpc>>
       ELSE /\ mtx' = t
            /\ cpc' = [cpc EXCEPT ![t] = "stop"]
            /\ UNCHANGED lastRet
    /\ UNCHANGED <<svcVars, id, cli, isInitialized, isStarted, dockerVars, pending, streaming>>

\* Stop: ContainerStop, isStarted = false, the deferred Close of the client
StopContainer(t) ==
    /\ cpc[t] = "stop"
    /\ \E ok \in BOOLEAN :
          /\ running' = IF ok THEN running \ {id} ELSE running
          /\ Return(t, "Stop", ~ok)
    /\ isStarted' = FALSE
    /\ open' = open \ {cli}
    /\ UNCHANGED <<svcVars, id, cli, isInitialized, created, nclients, pending, streaming>>

\* monitorLogs: the read of c.cli (and c.id) that opens the log stream
MonitorReadCli ==
    /\ pending > 0
    /\ pending' = pending - 1
    /\ streaming' = streaming \cup {cli}
    /\ UNCHANGED <<svcVars, id, cli, isInitialized, isStarted, mtx, dockerVars, cpc, lastRet>>

\* monitorLogs: the stream ends, as the client is closed or the container
\* is not running, and the goroutine returns
MonitorExit ==
    /\ \E k \in streaming :
          /\ k # 0
          /\ k \notin open \/ id \notin running
          /\ streaming' = streaming \ {k}
    /\ UNCHANGED <<svcVars, id, cli, isInitialized, isStarted, mtx, dockerVars, cpc, pending, lastRet>>

NextPg ==
    \/ \E t \in Callers : StartEnter(t)
    \/ \E t \in Callers : StartNewClient(t)
    \/ \E t \in Callers : StartInitialize(t)
    \/ \E t \in Callers : StartContainer(t)
    \/ \E t \in Callers : StartHealthCheck(t)
    \/ \E t \in Callers : StopEnter(t)
    \/ \E t \in Callers : StopContainer(t)
    \/ MonitorReadCli
    \/ MonitorExit

SpecPg == InitPg /\ [][NextPg]_vars

(***************************************************************************)
(* Properties of the opening-fee service.                                  *)
(***************************************************************************)
\* the last call validated the record the client holds
Submitted == pc = "held" /\ valCall.called /\ ~valCall.params.nil

\* the client holds the record exactly as it was issued
Untampered == held.tampered = "none"

\* the last call was given the public key of the key that signed the held record
SignerKey == valCall.publicKey = PubKey(held.signer)

Accepted == valCall.out.ret /\ ~valCall.out.panicked

Rejected == ~valCall.out.ret /\ ~valCall.out.panicked

TamperDetection ==
    (/\ Submitted
     /\ held.tampered \in SignedFields
     /\ SignerKey)
    => Rejected

\* the expiry was moved into the future: only the signature can reject it
TamperDetectionWitness ==
    /\ Submitted
    /\ held.tampered = "ValidUntil"
    /\ held.rec.Promise = held.issued.Promise
    /\ ParseTime(held.rec.ValidUntil).err = "nil"
    /\ ParseTime(held.rec.ValidUntil).t > ParseTime(held.issued.ValidUntil).t
    /\ ParseTime(held.rec.ValidUntil).t >= valCall.clock
    /\ SignerKey
    /\ Rejected

\* C3 (wrong key): a record as signed with private key K is rejected with
\* every public key other than the public key of K, expired or not.
WrongKeyRejection ==
    (/\ Submitted
     /\ Untampered
     /\ valCall.publicKey \in PublicKeys
     /\ ~SignerKey)
    => Rejected

WrongKeyRejectionWitness ==
    /\ Submitted
    /\ Untampered
    /\ valCall.publicKey \in PublicKeys
    /\ ~SignerKey
    /\ ParseTime(held.rec.ValidUntil).t >= valCall.clock
    /\ Rejected

\* C4 (expiry): a record whose valid_until lies before the clock read of the
\* validation is rejected, also when it is unchanged and validated with the
\* signer's public key.
ExpiryEnforcement ==
    (/\ Submitted
     /\ Untampered
     /\ SignerKey
     /\ ParseTime(held.rec.ValidUntil).t < valCall.clock)
    => Rejected

ExpiryEnforcementWitness ==
    /\ Submitted
    /\ Untampered
    /\ SignerKey
    /\ held.validity >= TicksPerUnit
    /\ ParseTime(held.rec.ValidUntil).t < valCall.clock
    /\ valCall.out.clockRead
    /\ Rejected

\* the held record's promise is empty, not hex, or a truncated signature
MalformedPromise ==
    /\ held.tampered = "Promise"
    /\ held.rec.Promise \in
          {<<>>, Garbled(held.issued.Promise),
           SubSeq(held.issued.Promise, 1, Len(held.issued.Promise) - 1),
           SubSeq(held.issued.Promise, 1, Len(held.issued.Promise) - 2)}

\* C5 (malformed promise): a record whose promise is empty, is no hex text or
\* is truncated is rejected, with every public key (an absent one too) and at
\* every clock value, and the call does not panic.
MalformedPromiseRejected ==
    (Submitted /\ MalformedPromise) => Rejected

\* an unsigned record, otherwise as issued and unexpired, with the signer's key
MalformedPromiseWitness ==
    /\ Submitted
    /\ MalformedPromise
    /\ held.rec.Promise = <<>>
    /\ SignerKey
    /\ ParseTime(held.rec.ValidUntil).t >= valCall.clock
    /\ Rejected

\* C6 (sort order): a returned menu is ascending by MinFeeMsat, and by
\* Proportional among records of equal MinFeeMsat.
SortOrder ==
    (pc = "menu" /\ menuCall.err = "nil")
    => \A i \in 1..(Len(menuCall.menu) - 1) :
          \/ menuCall.menu[i].MinFeeMsat < menuCall.menu[i + 1].MinFeeMsat
          \/ /\ menuCall.menu[i].MinFeeMsat = menuCall.menu[i + 1].MinFeeMsat
             /\ menuCall.menu[i].Proportional <= menuCall.menu[i + 1].Proportional

\* the fee and the factor of each entry of a list of settings or records
FeeOfSetting(x) == <<x.Params.MinMsat, x.Params.Proportional>>

FeeOfParams(x) == <<x.MinFeeMsat, x.Proportional>>

\* settings (500,1), (100,2), (100,1) give the menu (100,1), (100,2), (500,1)
SortOrderWitness ==
    /\ pc = "menu"
    /\ menuCall.err = "nil"
    /\ Len(menuCall.stored.settings) = 3
    /\ [i \in 1..3 |-> FeeOfSetting(menuCall.stored.settings[i])]
          = <<<<500, 1>>, <<100, 2>>, <<100, 1>>>>
    /\ Len(menuCall.menu) = 3
    /\ [i \in 1..3 |-> FeeOfParams(menuCall.menu[i])]
          = <<<<100, 1>>, <<100, 2>>, <<500, 1>>>>

\* C7 (store failure): when the store fails, whatever the cause, the call
\* returns no menu and the one generic error.
StoreFailure ==
    (pc = "menu" /\ menuCall.stored.err # "nil")
    => /\ menuCall.menu = <<>>
       /\ menuCall.err = "failed to get opening_fee_params"

StoreFailureWitness ==
    /\ pc = "menu"
    /\ menuCall.stored.err = "timeout"
    /\ menuCall.err # "nil"
    /\ menuCall.err # menuCall.stored.err

\* C8 (no partial menu): when the signing of a setting fails the call returns
\* an error and no record, also after records were signed for earlier settings.
NoPartialMenu ==
    (pc = "menu" /\ menuCall.failAt # 0)
    => /\ menuCall.err # "nil"
       /\ menuCall.menu = <<>>

NoPartialMenuWitness ==
    /\ pc = "menu"
    /\ menuCall.stored.err = "nil"
    /\ menuCall.failAt = Len(menuCall.stored.settings)
    /\ menuCall.failAt >= 2
    /\ menuCall.err # "nil"
    /\ menuCall.menu = <<>>

\* C9 (empty settings): when the store returns no setting and no error the
\* call returns an empty list and no error.
EmptySettings ==
    (pc = "menu" /\ menuCall.stored.err = "nil" /\ menuCall.stored.settings = <<>>)
    => /\ menuCall.menu = <<>>
       /\ menuCall.err = "nil"

EmptySettingsWitness ==
    /\ pc = "menu"
    /\ menuCall.stored.err = "nil"
    /\ menuCall.stored.settings = <<>>
    /\ menuCall.err = "nil"

\* C10 (nil input): a call with nil params returns false for every public
\* key, without a verification of a promise and without a clock read.
NilInput ==
    (valCall.called /\ valCall.params.nil)
    => /\ Rejected
       /\ ~valCall.out.verified
       /\ ~valCall.out.clockRead

NilInputWitness ==
    /\ valCall.called
    /\ valCall.params.nil
    /\ valCall.publicKey \in PublicKeys
    /\ Rejected

\* C11 (total boolean outcome): every call of ValidateOpeningFeeParams, an
\* absent public key included, finishes with true or false; no panic escapes.
TotalBooleanOutcome ==
    valCall.called => ~valCall.out.panicked

\* C12 (resubmission until expiry): every submission of an unchanged record
\* with the signer's public key is accepted while the clock is not after
\* valid_until, the instant of valid_until included and whatever was submitted
\* before; after a rejection at the expiry test every later one is rejected.
ResubmissionUntilExpiry ==
    [][(/\ pc' = "held"
        /\ valCall'.called
        /\ ~valCall'.params.nil
        /\ held'.tampered = "none"
        /\ valCall'.publicKey = PubKey(held'.signer))
       => /\ valCall'.clock <= ParseTime(held'.rec.ValidUntil).t
               => (valCall'.out.ret /\ ~valCall'.out.panicked)
          /\ held.expired => ~valCall'.out.ret]_vars

\* the third submission or a later one, at the very instant of valid_until
ResubmissionWitness ==
    /\ Submitted
    /\ Untampered
    /\ SignerKey
    /\ held.submits >= MaxSubmits
    /\ valCall.clock > held.issuedAt
    /\ valCall.clock = ParseTime(held.rec.ValidUntil).t
    /\ Accepted

\* a menu call returned a menu
MenuReturned == pc = "menu" /\ menuCall.err = "nil"

\* the ways to pair the records of the returned menu with the settings
Pairings ==
    LET n == Len(menuCall.stored.settings)
    IN  {p \in [1..n -> 1..n] : \A i, j \in 1..n : i # j => p[i] # p[j]}

\* record rec carries the four values of the setting
Projects(rec, setting) ==
    /\ rec.MinFeeMsat = setting.Params.MinMsat
    /\ rec.Proportional = setting.Params.Proportional
    /\ rec.MinLifetime = setting.Params.MaxIdleTime
    /\ rec.MaxClientToSelfDelay = setting.Params.MaxClientToSelfDelay

\* the instant the clock read for setting i plus the setting's validity
ExpiryOf(i) == menuCall.reads[i] + menuCall.stored.settings[i].Validity

\* C13 as claimed (expiry computation): the instant parsed back from the
\* valid_until of every record of a menu is the clock read of its construction
\* plus the validity of its setting.
ExpiryIsClockPlusValidity ==
    MenuReturned
    => /\ Len(menuCall.menu) = Len(menuCall.stored.settings)
       /\ \E p \in Pairings : \A j \in 1..Len(menuCall.menu) :
             /\ Projects(menuCall.menu[j], menuCall.stored.settings[p[j]])
             /\ ParseTime(menuCall.menu[j].ValidUntil).err = "nil"
             /\ ParseTime(menuCall.menu[j].ValidUntil).t = ExpiryOf(p[j])

\* C13 as amended: the instant parsed back from valid_until is the clock read
\* of the record's construction plus the validity of its setting, rounded
\* down to the unit of the time layout: never later, less than a unit earlier.
ExpiryIsClockPlusValidityRounded ==
    MenuReturned
    => /\ Len(menuCall.menu) = Len(menuCall.stored.settings)
       /\ \E p \in Pairings : \A j \in 1..Len(menuCall.menu) :
             /\ Projects(menuCall.menu[j], menuCall.stored.settings[p[j]])
             /\ ParseTime(menuCall.menu[j].ValidUntil).err = "nil"
             /\ ParseTime(menuCall.menu[j].ValidUntil).t <= ExpiryOf(p[j])
             /\ ExpiryOf(p[j]) < ParseTime(menuCall.menu[j].ValidUntil).t + TicksPerUnit

\* the clock moved during the call and an expiry falls between two units
ExpiryRoundedWitness ==
    /\ MenuReturned
    /\ Len(menuCall.menu) >= 2
    /\ menuCall.reads[1] # menuCall.reads[Len(menuCall.reads)]
    /\ \E i \in 1..Len(menuCall.reads) : ExpiryOf(i) % TicksPerUnit # 0
    /\ \E i \in 1..Len(menuCall.reads) : ExpiryOf(i) % TicksPerUnit = 0

\* C14 (one record per setting): a returned menu has one record for each
\* setting of the store, duplicates kept; each record carries the fee, the
\* factor, the maximum idle time (as MinLifetime) and the delay of its setting
\* and a promise.
OneRecordPerSetting ==
    MenuReturned
    => /\ Len(menuCall.menu) = Len(menuCall.stored.settings)
       /\ \E p \in Pairings : \A j \in 1..Len(menuCall.menu) :
             /\ Projects(menuCall.menu[j], menuCall.stored.settings[p[j]])
             /\ menuCall.menu[j].Promise # <<>>

\* the store returned the same setting twice, and a third one
OneRecordPerSettingWitness ==
    /\ MenuReturned
    /\ Len(menuCall.stored.settings) = 3
    /\ menuCall.stored.settings[1] = menuCall.stored.settings[3]
    /\ menuCall.stored.settings[1] # menuCall.stored.settings[2]
    /\ Len(menuCall.menu) = 3

\* the last call ran verifyPromise on a submitted record with a public key
\* that is present, and verifyPromise failed
VerifyFailed ==
    /\ Submitted
    /\ valCall.publicKey \in PublicKeys
    /\ valCall.verr # "nil"

\* C15 as claimed (one outcome class): verifyPromise gives the same result
\* for a hex decode failure, a malformed signature and a key mismatch.
VerifySameOutcome ==
    VerifyFailed => valCall.verr = "invalid promise"

\* C15 as amended: verifyPromise returns an error in each of the three cases,
\* whose value differs with the cause; ValidateOpeningFeeParams returns the
\* same false for all of them, before it parses valid_until or reads the clock.
VerifyFailureCollapsed ==
    /\ (Submitted /\ valCall.publicKey \in PublicKeys)
          => valCall.verr \in {"nil", "hex", "recover", "invalid promise"}
    /\ VerifyFailed
          => valCall.out = [panicked |-> FALSE, ret |-> FALSE,
                            verified |-> TRUE, clockRead |-> FALSE]

\* a promise that decodes to 64 bytes on an unexpired record: the signature
\* is malformed, neither a decode failure nor a mismatch
VerifyFailureWitness ==
    /\ VerifyFailed
    /\ valCall.verr = "recover"
    /\ SignerKey
    /\ ParseTime(held.rec.ValidUntil).err = "nil"
    /\ valCall.clock <= ParseTime(held.rec.ValidUntil).t
    /\ Rejected

\* the call of goroutine g has returned
Done(g) == calls[g].pc = "done"

\* what the call of goroutine g returns when it runs alone on its inputs:
\* the store's answer, the key and the clock reads for a menu call, the
\* record and the public key it was handed and the clock read for a validation
MenuAlone(g) ==
    GetFeeParamsMenu([err |-> calls[g].storeErr, settings |-> calls[g].settings],
                     lspPrivateKey, calls[g].reads, calls[g].failAt)

ValidateAlone(g) ==
    ValidateOpeningFeeParams(Ptr(calls[g].arg), calls[g].publicKey, calls[g].clock)

ReturnsAsAlone ==
    \A g \in Goroutines :
        Done(g) =>
            /\ calls[g].op = "menu" =>
                  /\ calls[g].storeErr = "nil" => calls[g].settings = store
                  /\ [menu |-> calls[g].ret.menu, err |-> calls[g].ret.err] \in MenuAlone(g)
            /\ calls[g].op = "validate" =>
                  /\ ~ValidateAlone(g).panicked
                  /\ calls[g].ret.ok = ValidateAlone(g).ret

\* C16 (statelessness under concurrency): no step of a menu or validation
\* call changes the store, the key or the submitted record, and under every
\* interleaving each call returns what it returns when run alone with the
\* same inputs and clock reads.
StatelessUnderConcurrency ==
    /\ []ReturnsAsAlone
    /\ [][UNCHANGED <<store, lspPrivateKey, submitted>>]_vars

\* a validation that read the clock between the two clock reads of a menu
\* call, both returned with success
StatelessWitness ==
    \E g, h \in Goroutines :
        /\ Done(g) /\ calls[g].op = "menu" /\ calls[g].ret.err = "nil"
        /\ Len(calls[g].reads) = 2
        /\ Done(h) /\ calls[h].op = "validate" /\ calls[h].ret.ok
        /\ calls[g].reads[1] < calls[h].clock
        /\ calls[h].clock < calls[g].reads[2]

\* C17 (no internal retry): a menu call reads the store once and signs at
\* most once per setting; after a store failure it has signed nothing, after
\* a signing failure at setting i it has signed i times, and it has returned.
NoInternalRetry ==
    \A g \in Goroutines :
        calls[g].op = "menu" =>
            /\ calls[g].storeReads = 1
            /\ calls[g].signAttempts = Len(calls[g].reads)
            /\ calls[g].signAttempts <= Len(calls[g].settings)
            /\ calls[g].storeErr # "nil" => Done(g) /\ calls[g].signAttempts = 0
            /\ calls[g].failAt # 0 =>
                  /\ Done(g)
                  /\ calls[g].signAttempts = calls[g].failAt
                  /\ calls[g].ret.err # "nil"
            /\ (Done(g) /\ calls[g].ret.err = "nil") =>
                  calls[g].signAttempts = Len(calls[g].settings)

\* one menu call failed at the store, another at its second signature
NoInternalRetryWitness ==
    \E g, h \in Goroutines :
        /\ Done(g) /\ calls[g].op = "menu" /\ calls[g].storeErr # "nil"
        /\ calls[g].storeReads = 1 /\ calls[g].signAttempts = 0
        /\ Done(h) /\ calls[h].op = "menu" /\ calls[h].failAt = 2
        /\ calls[h].storeReads = 1 /\ calls[h].signAttempts = 2

\* no call of Start or Stop is under way
Quiescent == mtx = 0

\* C18 (started flag matches reality): between calls, isStarted is true only
\* if the call that returned last is a Start that returned nil; after a Start
\* that returned an error isStarted is false.
StartedFlagMatchesReality ==
    (Quiescent /\ isStarted) => (lastRet.op = "Start" /\ ~lastRet.err)

\* C19 (idempotent lifecycle): Start on a started container and Stop on one
\* that is not started return nil and change nothing of the container or of
\* Docker; at most one container is ever created, and its id stays.
IdempotentLifecycle ==
    /\ [](/\ created <= 1
          /\ isInitialized <=> created = 1
          /\ isInitialized => id = 1)
    /\ [][((\E t \in Callers : StartEnter(t)) /\ isStarted)
            => /\ lastRet' = [op |-> "Start", err |-> FALSE, noop |-> TRUE]
               /\ UNCHANGED <<id, cli, isInitialized, isStarted, mtx, dockerVars>>]_vars
    /\ [][((\E t \in Callers : StopEnter(t)) /\ ~isStarted)
            => /\ lastRet' = [op |-> "Stop", err |-> FALSE, noop |-> TRUE]
               /\ UNCHANGED <<id, cli, isInitialized, isStarted, mtx, dockerVars>>]_vars
    /\ [][isInitialized => id' = id]_vars

\* two Starts succeeded (each spawned a monitor), so a Stop came between
\* them; then a Start found the container started: one container was created
IdempotentLifecycleWitness ==
    /\ Quiescent
    /\ pending = 2
    /\ nclients >= 2
    /\ created = 1
    /\ isStarted
    /\ id \in running
    /\ lastRet = [op |-> "Start", err |-> FALSE, noop |-> TRUE]

\* C20 (race-free client handle): no monitorLogs goroutine is about to read
\* c.cli while a caller is about to assign or close it, and a monitorLogs
\* goroutine takes from c.cli an open client, not nil.
CliRaceFree ==
    /\ ~(pending > 0 /\ \E t \in Callers : cpc[t] \in {"newclient", "stop"})
    /\ 0 \notin streaming
====
